---- MODULE Spec2Model ----
(***************************************************************************)
(* A model of the pem crate (src/src/lib.rs): the framing matcher (the     *)
(* ASCII_ARMOR regular expression), the section decoder                    *)
(* (Pem::new_from_captures), parse, parse_many, encode and encode_many.    *)
(*                                                                         *)
(* Text is a sequence of one-character strings; binary contents are        *)
(* sequences of bytes 0..255.                                              *)
(***************************************************************************)
EXTENDS Integers, Sequences, FiniteSets, TLC

VARIABLES pems, text, src, res

vars == <<pems, text, src, res>>

(***************************************************************************)
(* Bounds of the model.                                                    *)
(***************************************************************************)
\* how many Pem values a caller builds before encoding
MaxPems == 2
\* how many pieces (blocks or stray fragments) a raw input text is made of
MaxPieces == 2
\* length of the data regions enumerated exhaustively (decoder specification)
MaxDataLen == 3
\* number of full 64-character base64 lines in the longest contents encoded
MaxLines == 1

(***************************************************************************)
(* Literals of the framing pattern REGEX_STR and of encode's format        *)
(* strings.                                                                *)
(***************************************************************************)
DASHES == <<"-", "-", "-", "-", "-">>

BEGIN_LIT == DASHES \o <<"B", "E", "G", "I", "N", " ">>

END_LIT == DASHES \o <<"E", "N", "D", " ">>

CRLF == <<"\r", "\n">>

\* the characters the regular expression's \s matches (ASCII part)
SPACE_CHARS == {" ", "\t", "\n", "\r", "\f"}

(***************************************************************************)
(* Base64 transport: rustc_serialize::base64 as used by lib.rs             *)
(* (ToBase64::to_base64 with Config {line_length: Some(62), ..STANDARD},   *)
(* and FromBase64::from_base64).                                           *)
(***************************************************************************)
STANDARD_CHARS ==
  << "A", "B", "C", "D", "E", "F", "G", "H", "I", "J", "K", "L", "M",
     "N", "O", "P", "Q", "R", "S", "T", "U", "V", "W", "X", "Y", "Z",
     "a", "b", "c", "d", "e", "f", "g", "h", "i", "j", "k", "l", "m",
     "n", "o", "p", "q", "r", "s", "t", "u", "v", "w", "x", "y", "z",
     "0", "1", "2", "3", "4", "5", "6", "7", "8", "9", "+", "/" >>

\* line_length: Some(62) in encode
LineLength == 62

\* one entry of the decoder's table: the 6-bit value of a base64 digit
\* (standard or URL-safe), or a special code: 253 for a line break, 254
\* for '=', 255 for an invalid byte
DecodeCode(c) ==
  IF \E i \in 1..64 : STANDARD_CHARS[i] = c
    THEN (CHOOSE i \in 1..64 : STANDARD_CHARS[i] = c) - 1
    ELSE IF c = "-" THEN 62
    ELSE IF c = "_" THEN 63
    ELSE IF c \in {"\r", "\n"} THEN 253
    ELSE IF c = "=" THEN 254
    ELSE 255

\* the four digits of one 3-byte group
EncGroup(first, second, third) ==
  LET n == first * 65536 + second * 256 + third
  IN << STANDARD_CHARS[((n \div 262144) % 64) + 1],
        STANDARD_CHARS[((n \div 4096) % 64) + 1],
        STANDARD_CHARS[((n \div 64) % 64) + 1],
        STANDARD_CHARS[(n % 64) + 1] >>

\* the padded digits of the last, partial group (1 or 2 bytes)
EncTail(bytes) ==
  IF Len(bytes) = 1
    THEN LET n == bytes[1] * 65536
         IN << STANDARD_CHARS[((n \div 262144) % 64) + 1],
               STANDARD_CHARS[((n \div 4096) % 64) + 1], "=", "=" >>
    ELSE LET n == bytes[1] * 65536 + bytes[2] * 256
         IN << STANDARD_CHARS[((n \div 262144) % 64) + 1],
               STANDARD_CHARS[((n \div 4096) % 64) + 1],
               STANDARD_CHARS[((n \div 64) % 64) + 1], "=" >>

\* the encoding loop: a line break is written before a group when the
\* current line already holds line_length characters or more
RECURSIVE ToBase64Loop(_, _, _, _, _)
ToBase64Loop(bytes, i, cur_length, line_length, out) ==
  IF i + 2 <= Len(bytes)
    THEN LET brk == cur_length >= line_length
         IN ToBase64Loop(bytes, i + 3,
                         (IF brk THEN 0 ELSE cur_length) + 4,
                         line_length,
                         out \o (IF brk THEN CRLF ELSE <<>>)
                             \o EncGroup(bytes[i], bytes[i + 1], bytes[i + 2]))
    ELSE IF i <= Len(bytes)
      THEN out \o (IF cur_length >= line_length THEN CRLF ELSE <<>>)
               \o EncTail(SubSeq(bytes, i, Len(bytes)))
      ELSE out

to_base64(bytes, line_length) == ToBase64Loop(bytes, 1, 0, line_length, <<>>)

\* the decoder's buffer after the digits of one group (at most four):
\* each digit does buf = (buf | code) << 6.  Bits left by the groups before
\* lie above the ones read below, so every group starts from 0 here
GroupBuf(codes) ==
  LET c(i) == IF i <= Len(codes) THEN codes[i] ELSE 0
      n == Len(codes)
  IN IF n = 0 THEN 0
     ELSE IF n = 1 THEN c(1) * 64
     ELSE IF n = 2 THEN (c(1) * 64 + c(2)) * 64
     ELSE IF n = 3 THEN ((c(1) * 64 + c(2)) * 64 + c(3)) * 64
     ELSE (((c(1) * 64 + c(2)) * 64 + c(3)) * 64 + c(4)) * 64

\* the three bytes pushed when the fourth digit of a group arrives
GroupBytes(codes) ==
  LET buf == GroupBuf(codes)
  IN << (buf \div 4194304) % 256, (buf \div 16384) % 256, (buf \div 64) % 256 >>

\* from_base64.  The first loop reads up to the first '=': line breaks
\* (CR, LF) are skipped, an invalid byte is an error, every fourth digit
\* pushes three bytes.  The second loop accepts only '=', CR and LF after
\* that '='.  Two or three left-over digits give one or two more bytes, a
\* single one is a length error.
from_base64(data) ==
  LET eqs == {i \in 1..Len(data) : DecodeCode(data[i]) = 254}
      eq == IF eqs = {} THEN Len(data) + 1
            ELSE CHOOSE i \in eqs : \A j \in eqs : i <= j
      head == SubSeq(data, 1, eq - 1)
      codes == [i \in 1..Len(head) |-> DecodeCode(head[i])]
      digits == SelectSeq(codes, LAMBDA x : x < 64)
      groups == Len(digits) \div 4
      modulus == Len(digits) % 4
      r == [k \in 1..(3 * groups) |->
              GroupBytes(SubSeq(digits, 4 * ((k - 1) \div 3) + 1,
                                        4 * ((k - 1) \div 3) + 4))[((k - 1) % 3) + 1]]
      buf == GroupBuf(SubSeq(digits, 4 * groups + 1, Len(digits)))
  IN IF \E i \in 1..Len(head) : codes[i] = 255
       THEN [ok |-> FALSE, bytes |-> <<>>]
     ELSE IF \E j \in (eq + 1)..Len(data) : data[j] \notin {"=", "\r", "\n"}
       THEN [ok |-> FALSE, bytes |-> <<>>]
     ELSE IF modulus = 2
       THEN [ok |-> TRUE, bytes |-> r \o << (buf \div 1024) % 256 >>]
     ELSE IF modulus = 3
       THEN [ok |-> TRUE,
             bytes |-> r \o << (buf \div 65536) % 256, (buf \div 256) % 256 >>]
     ELSE IF modulus = 0
       THEN [ok |-> TRUE, bytes |-> r]
     ELSE [ok |-> FALSE, bytes |-> <<>>]

(***************************************************************************)
(* Framing matcher: the leftmost match of                                  *)
(*   (?s)-----BEGIN (?P<begin>.*?)-----\s*(?P<data>.*?)-----END            *)
(*       (?P<end>.*?)-----\s*                                              *)
(* Every group is lazy and '.' matches any character, so the leftmost      *)
(* match takes the first "-----BEGIN ", then the first "-----" after it,   *)
(* skips every white-space character, takes the first "-----END " after    *)
(* that, the first "-----" after it, and every white-space character that  *)
(* follows.                                                                *)
(***************************************************************************)
IsAt(s, lit, i) ==
  /\ i >= 1
  /\ i + Len(lit) - 1 <= Len(s)
  /\ SubSeq(s, i, i + Len(lit) - 1) = lit

\* first index >= from where lit occurs in s, 0 when there is none
Find(s, lit, from) ==
  LET hits == {i \in from..(Len(s) - Len(lit) + 1) : IsAt(s, lit, i)}
  IN IF hits = {} THEN 0 ELSE CHOOSE i \in hits : \A j \in hits : i <= j

\* greedy \s*: the first index >= from that holds no white space
SkipSpace(s, from) ==
  LET stops == {i \in from..(Len(s) + 1) :
                  i = Len(s) + 1 \/ s[i] \notin SPACE_CHARS}
  IN CHOOSE i \in stops : \A j \in stops : i <= j

NoMatch == [matched |-> FALSE, begin |-> <<>>, data |-> <<>>, end |-> <<>>,
            next |-> 0]

\* the leftmost match starting at or after from, with its three groups and
\* the index just after the match
CapturesFrom(s, from) ==
  LET b == Find(s, BEGIN_LIT, from)
      j == Find(s, DASHES, b + Len(BEGIN_LIT))
      d == SkipSpace(s, j + Len(DASHES))
      k == Find(s, END_LIT, d)
      l == Find(s, DASHES, k + Len(END_LIT))
  IN IF b = 0 THEN NoMatch
     ELSE IF j = 0 THEN NoMatch
     ELSE IF k = 0 THEN NoMatch
     ELSE IF l = 0 THEN NoMatch
     ELSE [matched |-> TRUE,
           begin |-> SubSeq(s, b + Len(BEGIN_LIT), j - 1),
           data |-> SubSeq(s, d, k - 1),
           end |-> SubSeq(s, k + Len(END_LIT), l - 1),
           next |-> SkipSpace(s, l + Len(DASHES))]

\* faulty variant: the pattern is anchored at the start of the input
captures_Anchored(s) ==
  IF IsAt(s, BEGIN_LIT, 1) THEN CapturesFrom(s, 1) ELSE NoMatch

\* ASCII_ARMOR.captures(input)
captures(s) == CapturesFrom(s, 1)

\* ASCII_ARMOR.captures_iter(input): successive non-overlapping matches
RECURSIVE CapturesIterFrom(_, _)
CapturesIterFrom(s, from) ==
  LET c == CapturesFrom(s, from)
  IN IF c.matched THEN <<c>> \o CapturesIterFrom(s, c.next) ELSE <<>>

captures_iter(s) == CapturesIterFrom(s, 1)

(***************************************************************************)
(* Results.  A Pem is [tag, contents]; a Result is Ok(pem) or an error     *)
(* kind with its fields (the two tags of MismatchedTags).                  *)
(***************************************************************************)
NoPem == [tag |-> <<>>, contents |-> <<>>]

Ok(pem) == [ok |-> TRUE, kind |-> "Ok", pem |-> pem, args |-> <<>>]

Err(kind, args) == [ok |-> FALSE, kind |-> kind, pem |-> NoPem, args |-> args]

\* str::replace(pat, ""): every occurrence of the character removed
Remove(s, c) == SelectSeq(s, LAMBDA x : x # c)

(***************************************************************************)
(* Faulty variants of the section decoder, used to show that the           *)
(* properties below depend on it.                                          *)
(***************************************************************************)
\* the end tag is validated before the begin tag
new_from_captures_EndFirst(caps) ==
  LET tag == caps.begin
      tag_end == caps.end
      data == Remove(Remove(caps.data, "\n"), " ")
      contents == from_base64(data)
  IN IF tag_end = <<>> THEN Err("MissingEndTag", <<>>)
     ELSE IF tag = <<>> THEN Err("MissingBeginTag", <<>>)
     ELSE IF tag # tag_end THEN Err("MismatchedTags", <<tag, tag_end>>)
     ELSE IF ~contents.ok THEN Err("InvalidData", <<>>)
     ELSE Ok([tag |-> tag, contents |-> contents.bytes])

\* every white-space character is stripped from the data, not only
\* newlines and spaces
new_from_captures_StripAll(caps) ==
  LET tag == caps.begin
      tag_end == caps.end
      data == SelectSeq(caps.data, LAMBDA x : x \notin SPACE_CHARS)
      contents == from_base64(data)
  IN IF tag = <<>> THEN Err("MissingBeginTag", <<>>)
     ELSE IF tag_end = <<>> THEN Err("MissingEndTag", <<>>)
     ELSE IF tag # tag_end THEN Err("MismatchedTags", <<tag, tag_end>>)
     ELSE IF ~contents.ok THEN Err("InvalidData", <<>>)
     ELSE Ok([tag |-> tag, contents |-> contents.bytes])

\* the comparison of the two tags is missing
new_from_captures_NoTagCheck(caps) ==
  LET tag == caps.begin
      tag_end == caps.end
      data == Remove(Remove(caps.data, "\n"), " ")
      contents == from_base64(data)
  IN IF tag = <<>> THEN Err("MissingBeginTag", <<>>)
     ELSE IF tag_end = <<>> THEN Err("MissingEndTag", <<>>)
     ELSE IF ~contents.ok THEN Err("InvalidData", <<>>)
     ELSE Ok([tag |-> tag, contents |-> contents.bytes])

(***************************************************************************)
(* Section decoder: Pem::new_from_captures.  The groups of a match always  *)
(* exist, and the model's text is ASCII, so the MissingData and NotUtf8    *)
(* branches are not taken.                                                 *)
(***************************************************************************)
new_from_captures(caps) ==
  LET tag == caps.begin
      tag_end == caps.end
      data == Remove(Remove(caps.data, "\n"), " ")
      contents == from_base64(data)
  IN IF tag = <<>> THEN Err("MissingBeginTag", <<>>)
     ELSE IF tag_end = <<>> THEN Err("MissingEndTag", <<>>)
     ELSE IF tag # tag_end THEN Err("MismatchedTags", <<tag, tag_end>>)
     ELSE IF ~contents.ok THEN Err("InvalidData", <<>>)
     ELSE Ok([tag |-> tag, contents |-> contents.bytes])

\* faulty variant: the last match is decoded instead of the first
parse_LastMatch(input) ==
  LET cs == captures_iter(input)
  IN IF cs = <<>> THEN Err("MalformedFraming", <<>>)
     ELSE new_from_captures(cs[Len(cs)])

\* parse: the first match, decoded; MalformedFraming without a match
parse(input) ==
  LET caps == captures(input)
  IN IF ~caps.matched THEN Err("MalformedFraming", <<>>)
     ELSE new_from_captures(caps)

\* filter_map(|caps| Pem::new_from_captures(caps).ok()).collect()
RECURSIVE FilterMapOk(_)
FilterMapOk(capsSeq) ==
  IF capsSeq = <<>> THEN <<>>
  ELSE LET r == new_from_captures(Head(capsSeq))
       IN (IF r.ok THEN <<r.pem>> ELSE <<>>) \o FilterMapOk(Tail(capsSeq))

\* faulty variant: only the first match is decoded
parse_many_First(input) ==
  LET caps == captures(input)
  IN IF caps.matched THEN FilterMapOk(<<caps>>) ELSE <<>>

\* faulty variant: the first block that fails to decode ends the scan
parse_many_Abort(input) ==
  LET rs == [i \in 1..Len(captures_iter(input)) |->
               new_from_captures(captures_iter(input)[i])]
      bad == {i \in 1..Len(rs) : ~rs[i].ok}
      stop == IF bad = {} THEN Len(rs) + 1
              ELSE CHOOSE i \in bad : \A j \in bad : i <= j
  IN [i \in 1..(stop - 1) |-> rs[i].pem]

parse_many(input) == FilterMapOk(captures_iter(input))

\* faulty variant: the test for empty contents is inverted
encode_Inverted(pem) ==
  LET contents == IF pem.contents # <<>> THEN <<>>
                  ELSE to_base64(pem.contents, LineLength)
  IN BEGIN_LIT \o pem.tag \o DASHES \o CRLF
       \o contents \o CRLF
       \o END_LIT \o pem.tag \o DASHES \o CRLF

\* faulty variant: the MIME line length of 76 instead of 62
encode_Mime(pem) ==
  LET contents == IF pem.contents = <<>> THEN <<>>
                  ELSE to_base64(pem.contents, 76)
  IN BEGIN_LIT \o pem.tag \o DASHES \o CRLF
       \o contents \o CRLF
       \o END_LIT \o pem.tag \o DASHES \o CRLF

\* encode
encode(pem) ==
  LET contents == IF pem.contents = <<>> THEN <<>>
                  ELSE to_base64(pem.contents, LineLength)
  IN BEGIN_LIT \o pem.tag \o DASHES \o CRLF
       \o contents \o CRLF
       \o END_LIT \o pem.tag \o DASHES \o CRLF

\* [String].join(sep)
RECURSIVE Join(_, _)
Join(strs, sep) ==
  IF strs = <<>> THEN <<>>
  ELSE IF Len(strs) = 1 THEN strs[1]
  ELSE strs[1] \o sep \o Join(Tail(strs), sep)

\* faulty variant: a separator after every block, the last one included
encode_many_Trailing(ps) ==
  Join([i \in 1..Len(ps) |-> encode(ps[i]) \o CRLF], <<>>)

\* encode_many
encode_many(ps) == Join([i \in 1..Len(ps) |-> encode(ps[i])], CRLF)

(***************************************************************************)
(* Inputs.  A caller either builds Pem values and encodes them, or hands   *)
(* raw text to the parser.                                                 *)
(***************************************************************************)
\* contents of n bytes; the seed varies the bit patterns
ByteSeq(n, seed) == [i \in 1..n |-> (seed + 83 * i) % 256]

\* content lengths: the short ones cover every padding case, the long ones
\* lie around each multiple of 48 bytes (one full base64 line)
ContentLens ==
  (0..4) \cup {48 * k + d : k \in 1..MaxLines, d \in {-1, 0, 1}}

PemContents == {ByteSeq(n, seed) : n \in ContentLens, seed \in {1, 254}}

\* tags a caller may choose: empty, plain, with a space, with a leading or
\* a trailing dash, and one holding the delimiter
PemTags ==
  { <<>>, <<"A">>, <<"A", " ", "B">>, <<"-", "A">>, <<"A", "-">>,
    <<"A">> \o DASHES \o <<"B">> }

\* the smaller pool the batch operations draw from
BatchTags == { <<>>, <<"A">>, <<"B">>, <<"A", "-">> }

BatchContents == { <<>>, <<1, 2, 3, 4>>, ByteSeq(48 * MaxLines + 1, 1) }

\* one complete BEGIN/END block of raw text
Frame(begin, lead, data, end, trail) ==
  [kind |-> "block", begin |-> begin, data |-> data, end |-> end,
   str |-> BEGIN_LIT \o begin \o DASHES \o lead \o data
             \o END_LIT \o end \o DASHES \o trail]

Stray(str) ==
  [kind |-> "stray", begin |-> <<>>, data |-> <<>>, end |-> <<>>, str |-> str]

LF == <<"\n">>

TagPairs ==
  { << <<"A">>, <<"A">> >>, << <<"B">>, <<"B">> >>, << <<"A">>, <<"B">> >>,
    << <<>>, <<"A">> >>, << <<"A">>, <<>> >> }

\* "AQID" is the base64 of 1,2,3; "AQ?D" holds an invalid byte
BlockDatas == { <<"A", "Q", "I", "D", "\n">>, <<"A", "Q", "?", "D", "\n">> }

\* end tags that differ from the begin tag "A" by case or by a space only
NearTags == { <<"a">>, <<"A", " ">> }

\* the last block has an empty data region and nothing after its END line
Blocks ==
  {Frame(tp[1], LF, d, tp[2], LF) : tp \in TagPairs, d \in BlockDatas}
    \cup {Frame(<<"A">>, LF, <<"A", "Q", "I", "D", "\n">>, e, LF) : e \in NearTags}
    \cup {Frame(<<"A">>, CRLF, <<>>, <<"A">>, <<>>)}

\* fragments without complete framing: the broken BEGIN line of
\* test_parse_invalid_framing, a BEGIN line alone, an END line alone, and
\* plain text
Strays ==
  { Stray(<<"-", "-", "B", "E", "G", "I", "N", " ", "A">> \o DASHES \o LF),
    Stray(BEGIN_LIT \o <<"A">> \o DASHES \o LF),
    Stray(END_LIT \o <<"A">> \o DASHES \o LF),
    Stray(<<"x", "\n">>) }

Pieces == Blocks \cup Strays

\* the data regions of the decoder specification: every string of at most
\* MaxDataLen of these characters
DataChars == {"A", "=", "?", "\t", "\r", "\n", " "}

DataStrings == UNION {[1..k -> DataChars] : k \in 0..MaxDataLen}

(***************************************************************************)
(* State: pems, the Pem values built by the caller; text, the text handed  *)
(* to the parser; src, where text came from (raw pieces, encode or         *)
(* encode_many of which Pem values); res, the results returned so far.     *)
(***************************************************************************)
NoSrc == [kind |-> "none", pems |-> <<>>, parts |-> <<>>]

NoRes == [parsed |-> FALSE, val |-> Err("none", <<>>),
          manyDone |-> FALSE, many |-> <<>>,
          reencoded |-> FALSE, out |-> <<>>]

Init ==
  /\ pems = <<>>
  /\ text = <<>>
  /\ src = NoSrc
  /\ res = NoRes

\* the caller builds one more Pem value
NewPem ==
  \E tag \in BatchTags, contents \in BatchContents :
    /\ src.kind = "none"
    /\ ~res.parsed /\ ~res.manyDone
    /\ Len(pems) < MaxPems
    /\ pems' = Append(pems, [tag |-> tag, contents |-> contents])
    /\ UNCHANGED <<text, src, res>>

\* the caller extends the raw input text by one piece
Write ==
  \E piece \in Pieces :
    /\ pems = <<>>
    /\ src.kind \in {"none", "raw"}
    /\ res = NoRes
    /\ Len(src.parts) < MaxPieces
    /\ text' = text \o piece.str
    /\ src' = [kind |-> "raw", pems |-> <<>>, parts |-> Append(src.parts, piece)]
    /\ UNCHANGED <<pems, res>>

\* encode(&pems[i]); its output becomes the text
Encode ==
  \E i \in 1..Len(pems) :
    /\ src.kind = "none"
    /\ text' = encode(pems[i])
    /\ src' = [kind |-> "encode", pems |-> <<pems[i]>>, parts |-> <<>>]
    /\ UNCHANGED <<pems, res>>

\* encode_many(&pems); its output becomes the text
EncodeMany ==
  /\ src.kind = "none"
  /\ ~res.parsed /\ ~res.manyDone
  /\ text' = encode_many(pems)
  /\ src' = [kind |-> "encode_many", pems |-> pems, parts |-> <<>>]
  /\ UNCHANGED <<pems, res>>

\* parse(text)
Parse ==
  /\ pems = <<>> \/ src.kind # "none"
  /\ ~res.parsed
  /\ res' = [res EXCEPT !.parsed = TRUE, !.val = parse(text)]
  /\ UNCHANGED <<pems, text, src>>

\* parse_many(text)
ParseMany ==
  /\ pems = <<>> \/ src.kind # "none"
  /\ ~res.manyDone
  /\ res' = [res EXCEPT !.manyDone = TRUE, !.many = parse_many(text)]
  /\ UNCHANGED <<pems, text, src>>

\* encode_many of what parse_many returned (test_encode_many)
Reencode ==
  /\ res.manyDone
  /\ ~res.reencoded
  /\ res' = [res EXCEPT !.reencoded = TRUE, !.out = encode_many(res.many)]
  /\ UNCHANGED <<pems, text, src>>

Next == NewPem \/ Write \/ EncodeMany \/ Parse \/ ParseMany \/ Reencode

Spec == Init /\ [][Next]_vars

\* the single-entity codec: one Pem value of any tag and contents, encoded
\* and parsed back
InitPem ==
  /\ pems \in {<<[tag |-> tag, contents |-> contents]>> :
                 tag \in PemTags, contents \in PemContents}
  /\ text = <<>>
  /\ src = NoSrc
  /\ res = NoRes

NextPem == Encode \/ Parse \/ ParseMany

SpecPem == InitPem /\ [][NextPem]_vars

\* the section decoder: one framed block with any data region
InitDecoder ==
  \E tp \in TagPairs \cup {<< <<>>, <<>> >>}
               \cup {<< <<"A">>, e >> : e \in NearTags},
     d \in DataStrings :
    LET block == Frame(tp[1], LF, d, tp[2], LF)
    IN /\ pems = <<>>
       /\ text = block.str
       /\ src = [kind |-> "raw", pems |-> <<>>, parts |-> <<block>>]
       /\ res = NoRes

NextDecoder == Parse \/ ParseMany

SpecDecoder == InitDecoder /\ [][NextDecoder]_vars

(***************************************************************************)
(* Vocabulary of the properties.                                           *)
(***************************************************************************)
\* a tag that is non-empty and does not contain the delimiter "-----"
DelimiterFree(tag) == tag # <<>> /\ Find(tag, DASHES, 1) = 0

\* ... and that does not end with a dash either
RoundTripTag(tag) == DelimiterFree(tag) /\ tag[Len(tag)] # "-"

Occurrences(s, lit) == {i \in 1..Len(s) : IsAt(s, lit, i)}

\* the text holds an occurrence of the framing pattern: "-----BEGIN ", then
\* "-----", then "-----END ", then "-----", in this order without overlap
HasFraming(s) ==
  LET ds == Occurrences(s, DASHES)
  IN \E b \in Occurrences(s, BEGIN_LIT), k \in Occurrences(s, END_LIT) :
       /\ \E j \in ds : b + Len(BEGIN_LIT) <= j /\ j + Len(DASHES) <= k
       /\ \E l \in ds : k + Len(END_LIT) <= l

\* the Pem values of the results that are Ok, in order
OkPems(results) ==
  LET oks == SelectSeq(results, LAMBDA r : r.ok)
  IN [i \in 1..Len(oks) |-> oks[i].pem]

\* the k-th character of the padded standard base64 of bytes, read off the
\* bit string: digit k is bits 6(k-1) .. 6k-1, '=' fills the last group
RefBase64Char(bytes, k) ==
  LET n == Len(bytes)
      bitpos == 6 * (k - 1)
      i == (bitpos \div 8) + 1
      off == bitpos % 8
      w == bytes[i] * 256 + (IF i + 1 <= n THEN bytes[i + 1] ELSE 0)
  IN IF k <= (8 * n + 5) \div 6
       THEN STANDARD_CHARS[((w \div (2 ^ (10 - off))) % 64) + 1]
       ELSE "="

\* that base64 text in lines of 64 characters separated by CRLF
RefWrapped(bytes) ==
  LET total == 4 * ((Len(bytes) + 2) \div 3)
      len == IF total = 0 THEN 0 ELSE total + 2 * ((total - 1) \div 64)
  IN [p \in 1..len |->
        LET line == (p - 1) \div 66
            col == (p - 1) % 66
        IN IF col = 64 THEN "\r"
           ELSE IF col = 65 THEN "\n"
           ELSE RefBase64Char(bytes, 64 * line + col + 1)]

\* the pieces of a raw text are all complete blocks
AllBlocks == src.kind = "raw" /\ \A i \in 1..Len(src.parts) : src.parts[i].kind = "block"

(***************************************************************************)
(* C1.  parse(encode(p)) = Ok(p) for every Pem p whose tag is non-empty    *)
(* and free of "-----", whatever the contents.                             *)
(* This statement fails for a tag that ends with a dash: the lazy begin    *)
(* group stops at the first "-----", which then starts inside the tag.     *)
(***************************************************************************)
C1_AsClaimed ==
  (res.parsed /\ src.kind = "encode" /\ DelimiterFree(src.pems[1].tag))
    => res.val = Ok(src.pems[1])

\* C1 as amended: parse(encode(p)) = Ok(p) for every Pem p whose tag is
\* non-empty, free of "-----" and does not end with '-', whatever the
\* contents (empty, short, or wrapped over several lines).
C1_RoundTrip ==
  (res.parsed /\ src.kind = "encode" /\ RoundTripTag(src.pems[1].tag))
    => res.val = Ok(src.pems[1])

C1_Witness ==
  /\ res.parsed
  /\ src.kind = "encode"
  /\ RoundTripTag(src.pems[1].tag)
  /\ Len(src.pems[1].contents) > 48
  /\ res.val = Ok(src.pems[1])

(***************************************************************************)
(* C2.  parse_many(encode_many(ps)) = ps for every sequence ps of Pem      *)
(* values whose tags are non-empty and free of "-----".                    *)
(* Fails like C1 for a tag ending with a dash.                             *)
(***************************************************************************)
C2_AsClaimed ==
  (res.manyDone /\ src.kind = "encode_many"
     /\ \A i \in 1..Len(src.pems) : DelimiterFree(src.pems[i].tag))
    => res.many = src.pems

\* C2 as amended: parse_many(encode_many(ps)) returns ps, element by
\* element and in order, for every sequence ps of Pem values whose tags are
\* non-empty, free of "-----" and do not end with '-'.
C2_RoundTripMany ==
  (res.manyDone /\ src.kind = "encode_many"
     /\ \A i \in 1..Len(src.pems) : RoundTripTag(src.pems[i].tag))
    => res.many = src.pems

C2_Witness ==
  /\ res.manyDone
  /\ src.kind = "encode_many"
  /\ Len(src.pems) >= 2
  /\ \A i \in 1..Len(src.pems) : RoundTripTag(src.pems[i].tag)
  /\ \E i \in 1..Len(src.pems) : src.pems[i].contents = <<>>
  /\ \E i \in 1..Len(src.pems) : Len(src.pems[i].contents) > 48
  /\ src.pems[1].tag # src.pems[2].tag
  /\ res.many = src.pems

(***************************************************************************)
(* C3.  On a text made of complete BEGIN/END blocks, parse_many returns    *)
(* exactly the Pem values of the blocks that decode successfully on their  *)
(* own, in their order, and drops the others without failing.              *)
(***************************************************************************)
C3_ParseManyDropsFailures ==
  (res.manyDone /\ AllBlocks)
    => res.many = OkPems([i \in 1..Len(src.parts) |-> parse(src.parts[i].str)])

\* a block with mismatched tags followed by a well-formed one: one entity
C3_Witness ==
  /\ res.manyDone
  /\ AllBlocks
  /\ Len(src.parts) = 2
  /\ parse(src.parts[1].str).kind = "MismatchedTags"
  /\ parse(src.parts[2].str).ok
  /\ res.many = <<parse(src.parts[2].str).pem>>

(***************************************************************************)
(* C4.  The section decoder reports the first failing step: an empty begin *)
(* tag gives MissingBeginTag whatever the end tag and the data are;        *)
(* otherwise an empty end tag gives MissingEndTag; otherwise unequal tags  *)
(* give MismatchedTags(begin, end); each even when the data is not valid   *)
(* base64.                                                                 *)
(***************************************************************************)
C4_ValidationOrder ==
  (res.parsed /\ AllBlocks /\ Len(src.parts) = 1)
    => LET b == src.parts[1].begin
           e == src.parts[1].end
       IN /\ b = <<>> => res.val = Err("MissingBeginTag", <<>>)
          /\ (b # <<>> /\ e = <<>>) => res.val = Err("MissingEndTag", <<>>)
          /\ (b # <<>> /\ e # <<>> /\ b # e)
               => res.val = Err("MismatchedTags", <<b, e>>)

\* begin "A", end "B", a data region that is not base64
C4_Witness ==
  /\ res.parsed
  /\ AllBlocks
  /\ Len(src.parts) = 1
  /\ src.parts[1].begin = <<"A">>
  /\ src.parts[1].end = <<"B">>
  /\ \E i \in 1..Len(src.parts[1].data) : src.parts[1].data[i] = "?"
  /\ res.val = Err("MismatchedTags", << <<"A">>, <<"B">> >>)

(***************************************************************************)
(* C5.  With non-empty equal tags, parse fails with InvalidData whenever   *)
(* the data region, newlines and spaces removed, holds a character outside *)
(* the base64 alphabet (digits and '='), tab and carriage return included. *)
(* This statement fails for the carriage return, which the base64 decoder  *)
(* skips.                                                                  *)
(***************************************************************************)
EqualTags ==
  /\ AllBlocks
  /\ Len(src.parts) = 1
  /\ src.parts[1].begin # <<>>
  /\ src.parts[1].begin = src.parts[1].end

\* the data region of the block, newlines and spaces removed
CleanData == Remove(Remove(captures(text).data, "\n"), " ")

StandardAlphabet == {STANDARD_CHARS[i] : i \in 1..64} \cup {"="}

C5_AsClaimed ==
  (res.parsed /\ EqualTags
     /\ \E i \in 1..Len(CleanData) : CleanData[i] \notin StandardAlphabet)
    => res.val = Err("InvalidData", <<>>)

\* C5 as amended: with non-empty equal tags, parse fails with InvalidData
\* whenever the data region, newlines and spaces removed, holds a character
\* that is neither a base64 digit (standard or URL-safe), '=' nor a
\* carriage return; this includes '?' and a tab between base64 characters.
\* A carriage return is not stripped but the decoder skips it: the result
\* is the one obtained with every carriage return removed.
C5_InvalidData ==
  (res.parsed /\ EqualTags)
    => /\ (\E i \in 1..Len(CleanData) :
             CleanData[i] \notin StandardAlphabet \cup {"-", "_", "\r"})
            => res.val = Err("InvalidData", <<>>)
       /\ res.val.ok = from_base64(Remove(CleanData, "\r")).ok
       /\ res.val.ok
            => res.val.pem.contents = from_base64(Remove(CleanData, "\r")).bytes

\* a tab between two base64 digits
C5_Witness ==
  /\ res.parsed
  /\ EqualTags
  /\ src.parts[1].data = <<"A", "\t", "A">>
  /\ res.val = Err("InvalidData", <<>>)

(***************************************************************************)
(* C6.  parse fails with MalformedFraming exactly when the text holds no   *)
(* occurrence of the framing pattern; on such a text parse_many returns    *)
(* the empty list.                                                         *)
(***************************************************************************)
C6_MalformedFraming ==
  /\ res.parsed => ((res.val = Err("MalformedFraming", <<>>)) <=> ~HasFraming(text))
  /\ (res.manyDone /\ ~HasFraming(text)) => res.many = <<>>

\* a text with BEGIN and END lines but no framing: the END line comes first
C6_Witness ==
  /\ res.parsed
  /\ res.manyDone
  /\ Occurrences(text, BEGIN_LIT) # {}
  /\ Occurrences(text, END_LIT) # {}
  /\ ~HasFraming(text)
  /\ res.val = Err("MalformedFraming", <<>>)
  /\ res.many = <<>>

(***************************************************************************)
(* C7.  Every Pem returned by parse or parse_many has a non-empty tag      *)
(* equal to the begin tag and to the end tag of the match it was decoded   *)
(* from.                                                                   *)
(***************************************************************************)
C7_TagsOfResults ==
  /\ (res.parsed /\ res.val.ok)
       => LET c == captures(text)
          IN /\ c.matched
             /\ res.val.pem.tag # <<>>
             /\ res.val.pem.tag = c.begin
             /\ res.val.pem.tag = c.end
  /\ res.manyDone
       => LET cs == captures_iter(text)
          IN /\ Len(res.many) <= Len(cs)
             /\ \A i \in 1..Len(res.many) :
                  /\ res.many[i].tag # <<>>
                  /\ \E j \in i..Len(cs) :
                       /\ res.many[i].tag = cs[j].begin
                       /\ res.many[i].tag = cs[j].end

\* a well-formed block next to one whose end tag differs by case or by a
\* space only
C7_Witness ==
  /\ res.parsed
  /\ res.manyDone
  /\ AllBlocks
  /\ \E i \in 1..Len(src.parts) : src.parts[i].end \in NearTags
  /\ res.val.ok
  /\ Len(res.many) = 1

JoinedBlocks ==
  src.kind = "encode_many"
    => LET n == Len(src.pems)
       IN text = IF n = 0 THEN <<>>
                 ELSE IF n = 1 THEN encode(src.pems[1])
                 ELSE encode_many(SubSeq(src.pems, 1, n - 1)) \o CRLF
                        \o encode(src.pems[n])

C9_AsClaimed ==
  /\ JoinedBlocks
  /\ (res.reencoded /\ src.kind = "encode_many"
        /\ \A i \in 1..Len(src.pems) : DelimiterFree(src.pems[i].tag))
       => res.out = text

\* C9 as amended: encode_many joins the encode outputs, in order, with one
\* CRLF between consecutive blocks and none after the last; and for a text
\* that is the encode_many output of Pem values whose tags are non-empty,
\* free of "-----" and do not end with '-', encode_many(parse_many(text))
\* reproduces the text.
C9_EncodeMany ==
  /\ JoinedBlocks
  /\ (res.reencoded /\ src.kind = "encode_many"
        /\ \A i \in 1..Len(src.pems) : RoundTripTag(src.pems[i].tag))
       => res.out = text

C9_Witness ==
  /\ res.reencoded
  /\ src.kind = "encode_many"
  /\ Len(src.pems) >= 2
  /\ \A i \in 1..Len(src.pems) : RoundTripTag(src.pems[i].tag)
  /\ \E i \in 1..Len(src.pems) : Len(src.pems[i].contents) > 48
  /\ res.out = text
  /\ Find(text, DASHES \o CRLF \o CRLF \o BEGIN_LIT, 1) # 0

(***************************************************************************)
(* C10.  parse decodes the first match only: when parse returns Ok(p),     *)
(* parse_many is non-empty and starts with p; when the first block fails   *)
(* to decode, parse returns that block's error even if a later block is    *)
(* well-formed, and parse_many is then still non-empty.                    *)
(***************************************************************************)
C10_ParseFirstMatch ==
  /\ (res.parsed /\ res.manyDone /\ res.val.ok)
       => (res.many # <<>> /\ res.many[1] = res.val.pem)
  /\ (res.parsed /\ src.kind = "raw" /\ src.parts[1].kind = "block"
        /\ ~parse(src.parts[1].str).ok)
       => /\ res.val = parse(src.parts[1].str)
          /\ (res.manyDone /\ AllBlocks
                /\ \E i \in 2..Len(src.parts) : parse(src.parts[i].str).ok)
               => res.many # <<>>

\* a failing block first, a well-formed block after it
C10_Witness ==
  /\ res.parsed
  /\ res.manyDone
  /\ AllBlocks
  /\ Len(src.parts) >= 2
  /\ ~parse(src.parts[1].str).ok
  /\ parse(src.parts[2].str).ok
  /\ res.val = parse(src.parts[1].str)
  /\ res.many # <<>>

====
